---- MODULE Spec2Model ----
(***************************************************************************)
(* BannerLord, modelled from the Python sources: the banner layout planner *)
(* (ControlNetBannerGenerator.create_control_image), the compositor's      *)
(* renderer (add_text_to_banner, create_composite_banner) and its export   *)
(* and import operations (export_with_metadata, load_from_metadata,        *)
(* export_as_svg), the design parser (BannerLord.parse_design_response),   *)
(* the pipeline (BannerLord.create_banner) with the command line (main),   *)
(* two pipelines writing into one output directory, one BannerLord object  *)
(* used for several calls, and the row loop of the fallback background.    *)
(*                                                                         *)
(* Integer division is Python's floor division (//), which is \div.        *)
(***************************************************************************)
EXTENDS Integers, Sequences, FiniteSets, TLC

VARIABLES
    pil_strict,   \* the installed Pillow rejects a rectangle with x1 < x0 or y1 < y0
    request,      \* the arguments of the create_control_image call to make
    control,      \* the outcome of the create_control_image call
    document,     \* the banner a compositor session exports: output path, background, layers
    fs,           \* the file system: what each path holds
    exported,     \* the outcome of the last export_with_metadata call
    loaded,       \* the outcome of the last load_from_metadata call
    svg_request,  \* the arguments of the export_as_svg call to make
    svg,          \* the outcome of the export_as_svg call
    render_request, \* a rendering session: background size, elements, output path, font metrics
    heap,         \* the image objects in memory, by identity: size and paint
    renders,      \* the rendering calls made so far: arguments and returned image
    design_response, \* the advisor's response text handed to parse_design_response
    parse,        \* the outcome of the parse_design_response call
    environment,  \* what a command-line run finds: key, output directory, advisor, generator, font
    cli_args,     \* the parsed command line of the run
    cli,          \* the outcome of main: exit code, stderr and the create_banner call
    runs,         \* two concurrent create_banner runs: output name and use_controlnet
    run_pc,       \* how many of its files each run has written
    written,      \* the file writes made so far: (path, run)
    app,          \* a BannerLord object used for several calls: its advisor and generator
    session,      \* the calls made on that object so far
    gradient_height, \* the canvas height of a fallback background being painted
    gradient      \* the row loop of that background: next row, last channels and color

layout_vars == <<pil_strict, request, control>>
metadata_vars == <<document, exported, loaded>>
svg_vars == <<svg_request, svg>>
render_vars == <<render_request, heap, renders>>
parse_vars == <<design_response, parse>>
banner_vars == <<environment, cli_args, cli>>
runs_vars == <<runs, run_pc, written>>
session_vars == <<app, session>>
gradient_vars == <<gradient_height, gradient>>
pipeline_vars == <<render_vars, parse_vars, banner_vars, runs_vars, session_vars,
                   gradient_vars>>
vars == <<pil_strict, request, control, document, fs, exported, loaded,
          svg_request, svg, render_request, heap, renders, design_response, parse,
          environment, cli_args, cli, runs, run_pc, written, app, session,
          gradient_height, gradient>>

(***************************************************************************)
(* Bounds of the model and the inputs drawn from them.                     *)
(***************************************************************************)
MaxSmallDim == 3
MaxPadMultiple == 5
MaxLayers == 2
MaxElements == 2
MaxRenders == 2
MaxResponseLen == 6
MaxCalls == 3

\* padding = 50 (controlnet_generator.py line 129)
padding == 50
\* the default canvas (controlnet_generator.py lines 90-91)
default_width == 1024
default_height == 512

\* Canvas sizes: the smallest ones (negative and zero included), the sizes
\* around every multiple of the padding, and the default size.
Dims ==
    (-1 .. MaxSmallDim)
        \cup { k * padding + d : k \in 1 .. MaxPadMultiple, d \in -1 .. 1 }
        \cup { default_width, default_height }

KnownPositions == {"center", "left", "right", "top", "bottom"}
TextPositions == KnownPositions \cup {"diagonal"}
KnownLayouts == {"minimal", "geometric", "split"}
LayoutTypes == KnownLayouts \cup {"freeform"}

(***************************************************************************)
(* ControlNetBannerGenerator.create_control_image                          *)
(***************************************************************************)
Rectangle(role, box, stroke) ==
    [role |-> role, shape |-> "rectangle", box |-> box, stroke |-> stroke]

Line(role, box, stroke) ==
    [role |-> role, shape |-> "line", box |-> box, stroke |-> stroke]

\* Image.new('RGB', (width, height), 'white'): Pillow refuses a negative size
\* and accepts a zero one.
ImageNewRaises(width, height) == width < 0 \/ height < 0

\* The border every known layout draws: draw.rectangle([0, 0, width-1, height-1]).
border(width, height) ==
    Rectangle("guidance-border", <<0, 0, width - 1, height - 1>>, 3)

\* guidance with the geometric layout's second divider drawn at width/2.
guidance_second_divider_at_half(width, height, layout_type) ==
    IF layout_type = "minimal" THEN
        << border(width, height) >>
    ELSE IF layout_type = "geometric" THEN
        << border(width, height),
           Line("guidance-divider",
                <<width \div 3, 0, width \div 3, height>>, 2),
           Line("guidance-divider",
                <<width \div 2, 0, width \div 2, height>>, 2) >>
    ELSE IF layout_type = "split" THEN
        << border(width, height),
           Line("guidance-divider",
                <<width \div 2, 0, width \div 2, height>>, 4) >>
    ELSE << >>

\* The shapes drawn for layout_type, in drawing order (lines 112-126).
guidance(width, height, layout_type) ==
    IF layout_type = "minimal" THEN
        << border(width, height) >>
    ELSE IF layout_type = "geometric" THEN
        << border(width, height),
           Line("guidance-divider",
                <<width \div 3, 0, width \div 3, height>>, 2),
           Line("guidance-divider",
                <<(2 * width) \div 3, 0, (2 * width) \div 3, height>>, 2) >>
    ELSE IF layout_type = "split" THEN
        << border(width, height),
           Line("guidance-divider",
                <<width \div 2, 0, width \div 2, height>>, 4) >>
    ELSE << >>

\* text_box with the right-hand box starting at width/2 - padding.
text_box_right_sign(width, height, text_position) ==
    IF text_position = "center" THEN
        <<width \div 4, height \div 3, (3 * width) \div 4, (2 * height) \div 3>>
    ELSE IF text_position = "left" THEN
        <<padding, height \div 4, width \div 2 - padding, (3 * height) \div 4>>
    ELSE IF text_position = "right" THEN
        <<width \div 2 - padding, height \div 4, width - padding, (3 * height) \div 4>>
    ELSE IF text_position = "top" THEN
        <<padding, padding, width - padding, height \div 3>>
    ELSE IF text_position = "bottom" THEN
        <<padding, (2 * height) \div 3, width - padding, height - padding>>
    ELSE
        <<width \div 4, height \div 3, (3 * width) \div 4, (2 * height) \div 3>>

\* text_box with an unknown text_position given the top box.
text_box_unknown_as_top(width, height, text_position) ==
    IF text_position = "center" THEN
        <<width \div 4, height \div 3, (3 * width) \div 4, (2 * height) \div 3>>
    ELSE IF text_position = "left" THEN
        <<padding, height \div 4, width \div 2 - padding, (3 * height) \div 4>>
    ELSE IF text_position = "right" THEN
        <<width \div 2 + padding, height \div 4, width - padding, (3 * height) \div 4>>
    ELSE IF text_position = "bottom" THEN
        <<padding, (2 * height) \div 3, width - padding, height - padding>>
    ELSE
        <<padding, padding, width - padding, height \div 3>>

\* text_box for text_position (lines 129-156).
text_box(width, height, text_position) ==
    IF text_position = "center" THEN
        <<width \div 4, height \div 3, (3 * width) \div 4, (2 * height) \div 3>>
    ELSE IF text_position = "left" THEN
        <<padding, height \div 4, width \div 2 - padding, (3 * height) \div 4>>
    ELSE IF text_position = "right" THEN
        <<width \div 2 + padding, height \div 4, width - padding, (3 * height) \div 4>>
    ELSE IF text_position = "top" THEN
        <<padding, padding, width - padding, height \div 3>>
    ELSE IF text_position = "bottom" THEN
        <<padding, (2 * height) \div 3, width - padding, height - padding>>
    ELSE
        <<width \div 4, height \div 3, (3 * width) \div 4, (2 * height) \div 3>>

\* Everything create_control_image draws, in order: the guidance shapes, then
\* the text-area box (line 159).
drawn(width, height, text_position, layout_type) ==
    Append(guidance(width, height, layout_type),
           Rectangle("text-area", text_box(width, height, text_position), 2))

\* ImageDraw.rectangle on a strict Pillow raises ValueError ("x1 must be greater
\* than or equal to x0") for an inverted box; ImageDraw.line never does.
DrawRaises(strict, region) ==
    /\ strict
    /\ region.shape = "rectangle"
    /\ \/ region.box[3] < region.box[1]
       \/ region.box[4] < region.box[2]

\* The call's outcome: the image (its size and what was drawn on it), or the
\* exception that left the caller without one.
create_control_image(strict, width, height, text_position, layout_type) ==
    LET shapes == drawn(width, height, text_position, layout_type)
        raises ==
            \/ ImageNewRaises(width, height)
            \/ \E i \in 1 .. Len(shapes) : DrawRaises(strict, shapes[i])
    IN  [ called        |-> TRUE,
          width         |-> width,
          height        |-> height,
          text_position |-> text_position,
          layout_type   |-> layout_type,
          err           |-> IF raises THEN "ValueError" ELSE "none",
          size          |-> IF raises THEN <<0, 0>> ELSE <<width, height>>,
          regions       |-> IF raises THEN << >> ELSE shapes ]

NoControl ==
    [ called |-> FALSE, width |-> 0, height |-> 0, text_position |-> "center",
      layout_type |-> "minimal", err |-> "none", size |-> <<0, 0>>,
      regions |-> << >> ]

\* The caller's arguments: create_control_image is a pure function of them.
Requests ==
    [ width : Dims, height : Dims,
      text_position : TextPositions, layout_type : LayoutTypes ]

CreateControlImage ==
    /\ ~control.called
    /\ control' = create_control_image(pil_strict, request.width, request.height,
                                       request.text_position, request.layout_type)
    /\ UNCHANGED <<pil_strict, request, fs, metadata_vars, svg_vars, pipeline_vars>>

(***************************************************************************)
(* Values: Python objects, their JSON encoding, images and files.          *)
(***************************************************************************)
\* A layer's 'position' is None, a tuple or a list in Python.
PyNone == [type |-> "NoneType", items |-> << >>]
PyTuple(items) == [type |-> "tuple", items |-> items]
PyList(items) == [type |-> "list", items |-> items]

\* JSON has null and one array type.
JsonNull == [type |-> "null", items |-> << >>]
JsonArray(items) == [type |-> "array", items |-> items]

\* json.dump of a value that is None or a sequence: None is written as null,
\* a tuple and a list are both written as an array.
json_dump_value(v) ==
    IF v.type = "NoneType" THEN JsonNull ELSE JsonArray(v.items)

\* json.load of null or an array: null is read as None, an array as a list.
json_load_value(j) ==
    IF j.type = "null" THEN PyNone ELSE PyList(j.items)

\* The keys of a layer whose value is None or a sequence; the values of all
\* other keys are strings, integers and booleans, which JSON keeps as they are.
SequenceKeys == {"position"}

json_dump_layer(layer) ==
    [ k \in DOMAIN layer |->
        IF k \in SequenceKeys THEN json_dump_value(layer[k]) ELSE layer[k] ]

json_load_layer(obj) ==
    [ k \in DOMAIN obj |->
        IF k \in SequenceKeys THEN json_load_value(obj[k]) ELSE obj[k] ]

json_dump_layers(text_layers) ==
    [ i \in 1 .. Len(text_layers) |-> json_dump_layer(text_layers[i]) ]

json_load_layers(array) ==
    [ i \in 1 .. Len(array) |-> json_load_layer(array[i]) ]

\* dict.get(key, default)
Get(layer, key, default) ==
    IF key \in DOMAIN layer THEN layer[key] ELSE default

\* The layers the sources build.
\* test_bannerlord.py lines 40-45
layer_test ==
    [ text |-> "TEST", position |-> PyTuple(<<400, 200>>), font_size |-> 48,
      color |-> "#FFFFFF" ]
\* bannerlord.py lines 184-194
layer_banner ==
    [ text |-> "INNOVATE", position |-> PyNone, font_size |-> 72,
      font_family |-> "Sans", color |-> "#3498db", alignment |-> "center",
      stroke_width |-> 3, stroke_color |-> "#000000", shadow |-> TRUE ]
\* examples.py lines 170-179
layer_editable ==
    [ text |-> "EDITABLE BANNER", x |-> 600, y |-> 200, font_size |-> 72,
      font_family |-> "Arial", color |-> "#ecf0f1", stroke_color |-> "#2c3e50",
      stroke_width |-> 3 ]
\* bannerlord.py lines 226-230: the banner layer with the canvas center added
layer_banner_svg ==
    [ text |-> "INNOVATE", position |-> PyNone, font_size |-> 72,
      font_family |-> "Sans", color |-> "#3498db", alignment |-> "center",
      stroke_width |-> 3, stroke_color |-> "#000000", shadow |-> TRUE,
      x |-> 512, y |-> 256 ]

LayerPool == << layer_test, layer_banner, layer_editable, layer_banner_svg >>

\* Every layer list of at most MaxLayers layers of the pool, in every order.
LayerLists ==
    UNION { { [ i \in 1 .. n |-> LayerPool[choice[i]] ] :
                choice \in [ 1 .. n -> 1 .. Len(LayerPool) ] } :
            n \in 0 .. MaxLayers }

\* An image in memory: its size.
NewImage(width, height) == [width |-> width, height |-> height]
NoImage == NewImage(0, 0)

\* test_bannerlord.py line 21, examples.py line 163, the default canvas
Backgrounds ==
    { NewImage(800, 400), NewImage(1200, 400),
      NewImage(default_width, default_height) }

\* What a path holds.
NoFile == [kind |-> "none"]
PngFile(image) == [kind |-> "png", width |-> image.width, height |-> image.height]
JsonFile(doc) == [kind |-> "json", doc |-> doc]
SvgFile(doc) == [kind |-> "svg", doc |-> doc]

\* Output base paths: two in the outputs directory, and one in a directory
\* that was never created.
ExistingOutputPaths == {"outputs/banner", "outputs/promo"}
OutputPaths == ExistingOutputPaths \cup {"drafts/banner"}

background_path(output_path) == output_path \o "_background.png"
metadata_path(output_path) == output_path \o "_metadata.json"
svg_path(output_path) == output_path \o ".svg"
png_path(output_path) == output_path \o ".png"
control_path(output_path) == output_path \o "_control.png"

OutputFiles(o) ==
    { control_path(o), background_path(o), png_path(o), metadata_path(o),
      svg_path(o) }

Paths == UNION { OutputFiles(o) : o \in OutputPaths }

\* The paths whose directory exists: a file can be created there.
WritablePaths == UNION { OutputFiles(o) : o \in ExistingOutputPaths }

EmptyFs == [ p \in Paths |-> NoFile ]

Exists(files, path) == path \in DOMAIN files /\ files[path] # NoFile

(***************************************************************************)
(* BannerCompositor.export_with_metadata                                   *)
(***************************************************************************)
\* metadata_dict with the image's size read in the order (height, width).
metadata_dict_size_swapped(bg_path, background, text_layers) ==
    [ width       |-> background.height,
      height      |-> background.width,
      background  |-> bg_path,
      text_layers |-> text_layers ]

\* The metadata dictionary (lines 192-197).
metadata_dict(bg_path, background, text_layers) ==
    [ width       |-> background.width,
      height      |-> background.height,
      background  |-> bg_path,
      text_layers |-> text_layers ]

\* json.dump(metadata) (line 201)
json_dump(metadata) ==
    [ metadata EXCEPT !.text_layers = json_dump_layers(metadata.text_layers) ]

\* The call: the file system it leaves and what it returns or raises.
export_with_metadata(files, output_path, background, text_layers) ==
    LET bg_path == background_path(output_path)
        md_path == metadata_path(output_path)
    IN  IF bg_path \notin WritablePaths THEN
            \* background.save raises before anything is written
            [ fs |-> files,
              ret |-> [ called |-> TRUE, err |-> "FileNotFoundError",
                        bg_path |-> "", metadata_path |-> "" ] ]
        ELSE
            [ fs |-> [ files EXCEPT
                         ![bg_path] = PngFile(background),
                         ![md_path] = JsonFile(json_dump(
                             metadata_dict(bg_path, background, text_layers))) ],
              ret |-> [ called |-> TRUE, err |-> "none",
                        bg_path |-> bg_path, metadata_path |-> md_path ] ]

NotExported ==
    [ called |-> FALSE, err |-> "none", bg_path |-> "", metadata_path |-> "" ]

ExportWithMetadata ==
    LET out == export_with_metadata(fs, document.output_path,
                                    document.background, document.text_layers)
    IN  /\ fs' = out.fs
        /\ exported' = out.ret
        /\ UNCHANGED <<document, loaded, layout_vars, svg_vars, pipeline_vars>>

(***************************************************************************)
(* BannerCompositor.load_from_metadata                                     *)
(***************************************************************************)
Raised(path, err, missing) ==
    [ called |-> TRUE, metadata_path |-> path, err |-> err, missing |-> missing,
      returned |-> FALSE, background |-> NoImage, text_layers |-> << >> ]

\* Image.open of a PNG file: an image of the file's size.
ImageOpen(file) == NewImage(file.width, file.height)

\* load_from_metadata (lines 258-264): the file is opened and parsed, the
\* background is opened from metadata['background'], then metadata['text_layers']
\* is read; nothing else is read or validated.
load_from_metadata(files, path) ==
    IF ~Exists(files, path) THEN
        Raised(path, "FileNotFoundError", path)
    ELSE
        LET metadata == files[path].doc
        IN  IF "background" \notin DOMAIN metadata THEN
                Raised(path, "KeyError", "background")
            ELSE IF ~Exists(files, metadata["background"]) THEN
                Raised(path, "FileNotFoundError", metadata["background"])
            ELSE IF "text_layers" \notin DOMAIN metadata THEN
                Raised(path, "KeyError", "text_layers")
            ELSE
                [ called |-> TRUE, metadata_path |-> path, err |-> "none",
                  missing |-> "", returned |-> TRUE,
                  background |-> ImageOpen(files[metadata["background"]]),
                  text_layers |-> json_load_layers(metadata["text_layers"]) ]

NotLoaded ==
    [ called |-> FALSE, metadata_path |-> "", err |-> "none", missing |-> "",
      returned |-> FALSE, background |-> NoImage, text_layers |-> << >> ]

LoadFromMetadata ==
    /\ loaded' = load_from_metadata(fs, metadata_path(document.output_path))
    /\ UNCHANGED <<document, fs, exported, layout_vars, svg_vars, pipeline_vars>>

\* The metadata file is meant to be edited: an editor drops one of its fields.
MetadataFields == {"width", "height", "background", "text_layers"}

RemoveField(field) ==
    LET path == metadata_path(document.output_path)
    IN  /\ Exists(fs, path)
        /\ field \in DOMAIN fs[path].doc
        /\ fs' = [ fs EXCEPT ![path] =
                     JsonFile([ k \in DOMAIN fs[path].doc \ {field} |->
                                  fs[path].doc[k] ]) ]
        /\ UNCHANGED <<document, exported, loaded, layout_vars, svg_vars, pipeline_vars>>

EditMetadata == \E field \in MetadataFields : RemoveField(field)

\* The background file is removed.
DeleteBackground ==
    LET path == background_path(document.output_path)
    IN  /\ Exists(fs, path)
        /\ fs' = [ fs EXCEPT ![path] = NoFile ]
        /\ UNCHANGED <<document, exported, loaded, layout_vars, svg_vars, pipeline_vars>>

Documents ==
    [ output_path : OutputPaths, background : Backgrounds,
      text_layers : LayerLists ]

(***************************************************************************)
(* BannerCompositor.export_as_svg                                          *)
(***************************************************************************)
\* dwg.image(href, insert=(0, 0), size=(width, height)) (lines 150-154)
image_node(width, height, background_image_path) ==
    [ tag |-> "image", href |-> background_image_path, x |-> 0, y |-> 0,
      width |-> width, height |-> height ]

\* text_node with the fill taken from the layer's stroke color.
text_node_fill_from_stroke(width, height, layer) ==
    [ tag          |-> "text",
      text         |-> Get(layer, "text", ""),
      x            |-> Get(layer, "x", width \div 2),
      y            |-> Get(layer, "y", height \div 2),
      font_size    |-> Get(layer, "font_size", 72),
      font_family  |-> Get(layer, "font_family", "Arial"),
      fill         |-> Get(layer, "stroke_color", "#FFFFFF"),
      text_anchor  |-> "middle",
      stroke       |-> Get(layer, "stroke_color", "#000000"),
      stroke_width |-> Get(layer, "stroke_width", 2) ]

\* dwg.text(...) for one layer (lines 158-167)
text_node(width, height, layer) ==
    [ tag          |-> "text",
      text         |-> Get(layer, "text", ""),
      x            |-> Get(layer, "x", width \div 2),
      y            |-> Get(layer, "y", height \div 2),
      font_size    |-> Get(layer, "font_size", 72),
      font_family  |-> Get(layer, "font_family", "Arial"),
      fill         |-> Get(layer, "color", "#FFFFFF"),
      text_anchor  |-> "middle",
      stroke       |-> Get(layer, "stroke_color", "#000000"),
      stroke_width |-> Get(layer, "stroke_width", 2) ]

\* The drawing: its size and its nodes in the order they were added.
svg_drawing(width, height, background_image_path, text_layers) ==
    [ width  |-> width,
      height |-> height,
      nodes  |-> << image_node(width, height, background_image_path) >>
                   \o [ i \in 1 .. Len(text_layers) |->
                          text_node(width, height, text_layers[i]) ] ]

NoDrawing == [ width |-> 0, height |-> 0, nodes |-> << >> ]

\* The call: dwg.save() writes the drawing, or raises where the directory is missing.
export_as_svg(files, output_path, width, height, background_image_path, text_layers) ==
    LET drawing == svg_drawing(width, height, background_image_path, text_layers)
    IN  IF output_path \in WritablePaths THEN
            [ fs |-> [ files EXCEPT ![output_path] = SvgFile(drawing) ],
              ret |-> [ called |-> TRUE, err |-> "none", output_path |-> output_path,
                        drawing |-> drawing ] ]
        ELSE
            [ fs |-> files,
              ret |-> [ called |-> TRUE, err |-> "FileNotFoundError",
                        output_path |-> output_path, drawing |-> NoDrawing ] ]

NotDrawn ==
    [ called |-> FALSE, err |-> "none", output_path |-> "", drawing |-> NoDrawing ]

ExportAsSvg ==
    LET out == export_as_svg(fs, svg_request.output_path, svg_request.width,
                             svg_request.height, svg_request.background_image_path,
                             svg_request.text_layers)
    IN  /\ ~svg.called
        /\ fs' = out.fs
        /\ svg' = out.ret
        /\ UNCHANGED <<svg_request, layout_vars, metadata_vars, pipeline_vars>>

SvgRequests ==
    [ output_path : { svg_path(o) : o \in OutputPaths },
      width : { b.width : b \in Backgrounds },
      height : { b.height : b \in Backgrounds },
      background_image_path :
          { background_path(o) : o \in ExistingOutputPaths },
      text_layers : LayerLists ]

(***************************************************************************)
(* BannerCompositor.add_text_to_banner and create_composite_banner.        *)
(* An image object is an entry of the heap, named by its index; its value  *)
(* is its size and the draw.text calls painted on it, oldest first.        *)
(***************************************************************************)
\* shadow_offset = 3 (banner_compositor.py line 105)
shadow_offset == 3

\* A blank image of the given size.
Canvas(image) == [ width |-> image.width, height |-> image.height, paint |-> << >> ]

\* Image.copy() returning the image itself instead of a new object.
image_copy_alias(images, id) ==
    [ heap |-> images, id |-> id ]

\* Image.copy() building the new image with its two dimensions exchanged.
image_copy_transposed(images, id) ==
    [ heap |-> Append(images, [ images[id] EXCEPT !.width = images[id].height,
                                                  !.height = images[id].width ]),
      id |-> Len(images) + 1 ]

\* background.copy() (lines 85 and 226): a new image object with the same
\* size and paint.
image_copy(images, id) ==
    [ heap |-> Append(images, images[id]), id |-> Len(images) + 1 ]

\* str.title() on the family names used here: the first letter of a word in
\* upper case, the others in lower case.
title(font_family) ==
    CASE font_family \in {"Sans", "sans", "SANS"} -> "Sans"
      [] font_family \in {"Arial", "arial"} -> "Arial"
      [] font_family \in {"Nope", "nope"} -> "Nope"
      [] font_family \in {"Sans-Bold", "sans-bold"} -> "Sans-Bold"

\* The candidate files of lines 37-42, in the order they are tried.
font_paths(font_family) ==
    << "/usr/share/fonts/truetype/dejavu/DejaVu" \o title(font_family) \o ".ttf",
       "/usr/share/fonts/truetype/liberation/Liberation" \o title(font_family) \o ".ttf",
       "/usr/share/fonts/truetype/dejavu/DejaVuSans-Bold.ttf",
       "/usr/share/fonts/truetype/dejavu/DejaVuSans.ttf" >>

\* ImageFont.load_default() (line 51): the built-in font, whatever the size.
load_default == [ kind |-> "default" ]

\* The loop of lines 44-49 from candidate i on: the first file that exists
\* and that ImageFont.truetype loads, at the size asked for; a file that is
\* missing or does not load is skipped.
RECURSIVE get_font_from(_, _, _, _)
get_font_from(fonts, paths, i, font_size) ==
    IF i > Len(paths) THEN load_default
    ELSE IF paths[i] \in fonts.files /\ paths[i] \notin fonts.unreadable THEN
        [ kind |-> "truetype", path |-> paths[i], size |-> font_size ]
    ELSE get_font_from(fonts, paths, i + 1, font_size)

\* self._get_font(font_size, font_family) (lines 24-51), on a machine whose
\* font files are fonts.files, of which fonts.unreadable do not load.
get_font(fonts, font_size, font_family) ==
    get_font_from(fonts, font_paths(font_family), 1, font_size)

\* draw.textbbox(xy, text, font=font) (line 94): the box the glyphs cover when
\* the text is drawn at xy, font_bbox being the box they cover when it is
\* drawn at the origin.
textbbox(xy, font_bbox) ==
    << xy[1] + font_bbox[1], xy[2] + font_bbox[2],
       xy[1] + font_bbox[3], xy[2] + font_bbox[4] >>

\* draw.text(xy, text, font=, fill=, stroke_width=, stroke_fill=) on image id
\* (lines 107-114 and 117-124)
draw_text(images, id, xy, text, font, fill, stroke_width, stroke_fill) ==
    [ images EXCEPT ![id].paint =
        Append(@, [ xy |-> xy, text |-> text, font |-> font, fill |-> fill,
                    stroke_width |-> stroke_width, stroke_fill |-> stroke_fill ]) ]

\* add_text_to_banner painting the shadow after the main text.
add_text_to_banner_shadow_last(images, background, text, position, font_size, font_family, color, alignment, stroke_width, stroke_color, shadow, fonts) ==
    LET copied == image_copy(images, background)
        img == copied.id
        font == get_font(fonts, font_size, font_family)
        resolved ==
            IF position = PyNone THEN
                LET bbox == textbbox(<<0, 0>>, fonts.bbox)
                    text_width == bbox[3] - bbox[1]
                    text_height == bbox[4] - bbox[2]
                IN  << (copied.heap[img].width - text_width) \div 2,
                       (copied.heap[img].height - text_height) \div 2 >>
            ELSE position.items
        main_pass == draw_text(copied.heap, img, resolved, text, font, color,
                          stroke_width, stroke_color)
        shadowed ==
            IF shadow THEN
                draw_text(main_pass, img,
                          << resolved[1] + shadow_offset, resolved[2] + shadow_offset >>,
                          text, font, "#00000080", stroke_width, "#00000080")
            ELSE main_pass
    IN  [ heap |-> shadowed, img |-> img ]

\* add_text_to_banner (lines 53-126): the heap it leaves and the image it returns.
add_text_to_banner(images, background, text, position, font_size, font_family, color, alignment, stroke_width, stroke_color, shadow, fonts) ==
    LET \* img = background.copy() (line 85)
        copied == image_copy(images, background)
        img == copied.id
        \* line 89
        font == get_font(fonts, font_size, font_family)
        \* lines 92-101
        resolved ==
            IF position = PyNone THEN
                LET bbox == textbbox(<<0, 0>>, fonts.bbox)
                    text_width == bbox[3] - bbox[1]
                    text_height == bbox[4] - bbox[2]
                IN  << (copied.heap[img].width - text_width) \div 2,
                       (copied.heap[img].height - text_height) \div 2 >>
            ELSE position.items
        \* lines 104-114
        shadowed ==
            IF shadow THEN
                draw_text(copied.heap, img,
                          << resolved[1] + shadow_offset, resolved[2] + shadow_offset >>,
                          text, font, "#00000080", stroke_width, "#00000080")
            ELSE copied.heap
        \* lines 117-124
        main_pass == draw_text(shadowed, img, resolved, text, font, color,
                          stroke_width, stroke_color)
    IN  [ heap |-> main_pass, img |-> img ]

\* One add_text_to_banner call with an element's keys and the defaults of
\* lines 229-239, which are the defaults of the signature (lines 57-64).
add_element(images, background, element, fonts) ==
    add_text_to_banner(images, background,
                       Get(element, "text", ""),
                       Get(element, "position", PyNone),
                       Get(element, "font_size", 72),
                       Get(element, "font_family", "Sans"),
                       Get(element, "color", "#FFFFFF"),
                       Get(element, "alignment", "center"),
                       Get(element, "stroke_width", 2),
                       Get(element, "stroke_color", "#000000"),
                       Get(element, "shadow", TRUE),
                       fonts)

\* The loop of lines 228-240 from element i on.
RECURSIVE composite_loop(_, _, _, _, _)
composite_loop(images, result, text_elements, i, fonts) ==
    IF i > Len(text_elements) THEN [ heap |-> images, img |-> result ]
    ELSE LET step == add_element(images, result, text_elements[i], fonts)
         IN  composite_loop(step.heap, step.img, text_elements, i + 1, fonts)

\* The loop of lines 228-240 painting every element on the background
\* instead of on the result so far.
RECURSIVE composite_loop_on_background(_, _, _, _, _, _)
composite_loop_on_background(images, background, result, text_elements, i, fonts) ==
    IF i > Len(text_elements) THEN [ heap |-> images, img |-> result ]
    ELSE LET step == add_element(images, background, text_elements[i], fonts)
         IN  composite_loop_on_background(step.heap, background, step.img,
                                          text_elements, i + 1, fonts)

\* An output path that is None or empty: nothing is saved (line 243).
NoOutputPath == ""

\* create_composite_banner with every element painted on the background.
create_composite_banner_on_background(files, images, background, text_elements, output_path, fonts) ==
    LET copied == image_copy(images, background)
        done == composite_loop_on_background(copied.heap, copied.id, copied.id,
                                             text_elements, 1, fonts)
    IN  IF output_path = NoOutputPath THEN
            [ fs |-> files, heap |-> done.heap, img |-> done.img, err |-> "none" ]
        ELSE IF output_path \in WritablePaths THEN
            [ fs |-> [ files EXCEPT ![output_path] = PngFile(done.heap[done.img]) ],
              heap |-> done.heap, img |-> done.img, err |-> "none" ]
        ELSE
            [ fs |-> files, heap |-> done.heap, img |-> 0,
              err |-> "FileNotFoundError" ]

\* create_composite_banner (lines 209-246): the file system and heap it leaves,
\* and the image it returns or the exception result.save raises.
create_composite_banner(files, images, background, text_elements, output_path, fonts) ==
    LET \* line 226
        copied == image_copy(images, background)
        \* lines 228-240
        done == composite_loop(copied.heap, copied.id, text_elements, 1, fonts)
    IN  \* lines 243-246
        IF output_path = NoOutputPath THEN
            [ fs |-> files, heap |-> done.heap, img |-> done.img, err |-> "none" ]
        ELSE IF output_path \in WritablePaths THEN
            [ fs |-> [ files EXCEPT ![output_path] = PngFile(done.heap[done.img]) ],
              heap |-> done.heap, img |-> done.img, err |-> "none" ]
        ELSE
            [ fs |-> files, heap |-> done.heap, img |-> 0,
              err |-> "FileNotFoundError" ]

\* The elements the sources build.
\* test_bannerlord.py lines 67-71
element_title == [ text |-> "TITLE", font_size |-> 72, color |-> "#FFFFFF" ]
\* examples.py lines 129-135
element_positioned ==
    [ text |-> "BannerLord", position |-> PyTuple(<<512, 200>>), font_size |-> 80,
      color |-> "#ffffff", shadow |-> TRUE ]
\* an element of the shape bannerlord.py lines 184-194 build, without a shadow
element_flat ==
    [ text |-> "INNOVATE", position |-> PyNone, font_size |-> 72,
      font_family |-> "Sans", color |-> "#3498db", alignment |-> "left",
      stroke_width |-> 3, stroke_color |-> "#000000", shadow |-> FALSE ]

ElementPool == << element_title, element_positioned, element_flat >>

\* Every element list of at most MaxElements elements of the pool, in every order.
ElementLists ==
    UNION { { [ i \in 1 .. n |-> ElementPool[choice[i]] ] :
                choice \in [ 1 .. n -> 1 .. Len(ElementPool) ] } :
            n \in 0 .. MaxElements }

\* The box (left, top, right, bottom) a font gives a text drawn at the origin:
\* flush with the origin, below the ascender line, and inset on both axes
\* with an odd width and height.
FontBBoxes == { <<0, 0, 120, 36>>, <<0, 11, 131, 46>>, <<2, 14, 301, 67>> }

\* The font files of a machine with the DejaVu fonts installed.
DejaVuFiles ==
    { "/usr/share/fonts/truetype/dejavu/DejaVuSans.ttf",
      "/usr/share/fonts/truetype/dejavu/DejaVuSans-Bold.ttf" }

\* The machines: with the DejaVu fonts, with a DejaVuSans.ttf that does not
\* load, and with no font file at all.
FontMachines ==
    { [ files |-> DejaVuFiles, unreadable |-> {} ],
      [ files |-> DejaVuFiles,
        unreadable |-> { "/usr/share/fonts/truetype/dejavu/DejaVuSans.ttf" } ],
      [ files |-> {}, unreadable |-> {} ] }

\* The fonts of a rendering session: the machine and the box of the text.
FontSetups ==
    { [ files |-> m.files, unreadable |-> m.unreadable, bbox |-> b ] :
        m \in FontMachines, b \in FontBBoxes }

IdleFonts ==
    [ files |-> DejaVuFiles, unreadable |-> {}, bbox |-> <<0, 0, 120, 36>> ]

\* The fonts of a command-line run: each machine with the box of the text in
\* the font it loads.
RunFonts ==
    { [ files |-> DejaVuFiles, unreadable |-> {}, bbox |-> <<0, 0, 120, 36>> ],
      [ files |-> DejaVuFiles,
        unreadable |-> { "/usr/share/fonts/truetype/dejavu/DejaVuSans.ttf" },
        bbox |-> <<0, 11, 131, 46>> ],
      [ files |-> {}, unreadable |-> {}, bbox |-> <<2, 14, 301, 67>> ] }

\* The backgrounds of a rendering session: the canvas of the tests
\* (test_bannerlord.py line 21) and one of odd width and height.
RenderCanvases == { NewImage(800, 400), NewImage(801, 401) }

RenderRequests ==
    [ background : RenderCanvases,
      text_elements : ElementLists,
      output_path : { NoOutputPath, png_path("outputs/banner"),
                      png_path("drafts/banner") },
      fonts : FontSetups ]

\* The images a session renders on: the background it started with and the
\* image the last call returned.
RenderTargets ==
    {1} \cup { renders[k].img :
                 k \in { j \in DOMAIN renders :
                            j = Len(renders) /\ renders[j].err = "none" } }

\* A rendering call as the session remembers it: the operation, the image
\* object given as background and its value at the call, the elements, the
\* image object returned and the heap size before the call.
RenderCall(op, background, elements, images, img, err) ==
    [ op |-> op, background |-> background, was |-> images[background],
      elements |-> elements, img |-> img, err |-> err,
      allocated |-> Len(images) ]

AddTextToBanner ==
    /\ Len(renders) < MaxRenders
    /\ \E background \in RenderTargets :
       \E i \in DOMAIN render_request.text_elements :
          LET element == render_request.text_elements[i]
              out == add_element(heap, background, element, render_request.fonts)
          IN  /\ heap' = out.heap
              /\ renders' = Append(renders,
                     RenderCall("add_text_to_banner", background, << element >>,
                                heap, out.img, "none"))
    /\ UNCHANGED <<render_request, fs, layout_vars, metadata_vars, svg_vars, parse_vars, banner_vars, runs_vars, session_vars, gradient_vars>>

CreateCompositeBanner ==
    /\ Len(renders) < MaxRenders
    /\ \E background \in RenderTargets :
          LET out == create_composite_banner(fs, heap, background,
                         render_request.text_elements,
                         render_request.output_path, render_request.fonts)
          IN  /\ heap' = out.heap
              /\ fs' = out.fs
              /\ renders' = Append(renders,
                     RenderCall("create_composite_banner", background,
                                render_request.text_elements, heap, out.img,
                                out.err))
    /\ UNCHANGED <<render_request, layout_vars, metadata_vars, svg_vars, parse_vars, banner_vars, runs_vars, session_vars, gradient_vars>>

IdleRenderRequest ==
    [ background |-> NewImage(default_width, default_height),
      text_elements |-> << >>, output_path |-> NoOutputPath,
      fonts |-> IdleFonts ]

IdleRender ==
    /\ render_request = IdleRenderRequest
    /\ heap = << >>
    /\ renders = << >>

(***************************************************************************)
(* BannerLord.parse_design_response.                                       *)
(* A response is a sequence of chunks of text: "{" and "}" are the braces, *)
(* "k" is the key "layout": with its colon, "c" is the member              *)
(* "colors":["#e74c3c"], and "t" is a word of prose.  Over these chunks    *)
(* the JSON documents are {}, {c} and {k object}.  The advisor can also    *)
(* answer with the members "e", "n" and "s", which are "colors":[],        *)
(* "colors":[255] and "colors":"red"; json.loads accepts each of them in   *)
(* the place of "c".                                                       *)
(***************************************************************************)
Chunks == {"{", "}", "k", "c", "t"}

\* A str and an int, as isinstance tells them apart (line 182).
PyStr(value) == [ type |-> "str", value |-> value ]
PyInt(value) == [ type |-> "int", value |-> value ]

\* The members "colors": value and the value json.loads gives each (line 73).
ColorMembers == {"c", "e", "n", "s"}

colors_value(member) ==
    CASE member = "c" -> PyList(<< PyStr("#e74c3c") >>)
      [] member = "e" -> PyList(<< >>)
      [] member = "n" -> PyList(<< PyInt(255) >>)
      [] member = "s" -> PyStr("red")

Responses == UNION { [ 1 .. n -> Chunks ] : n \in 0 .. MaxResponseLen }

\* str.find(ch): the 0-based index of the first occurrence, or -1 (line 68)
find(response, ch) ==
    LET hits == { i \in DOMAIN response : response[i] = ch }
    IN  IF hits = {} THEN -1
        ELSE (CHOOSE i \in hits : \A j \in hits : i <= j) - 1

\* str.rfind(ch): the 0-based index of the last occurrence, or -1 (line 69)
rfind(response, ch) ==
    LET hits == { i \in DOMAIN response : response[i] = ch }
    IN  IF hits = {} THEN -1
        ELSE (CHOOSE i \in hits : \A j \in hits : i >= j) - 1

\* response[start:end] for 0 <= start and 0 <= end <= len(response) (line 72)
slice(response, start, end) ==
    IF start >= end THEN << >> ELSE SubSeq(response, start + 1, end)

\* A dictionary with no key.
EmptyDict == << >>

\* json.loads accepts the text (line 73).
RECURSIVE is_json(_)
is_json(json_str) ==
    /\ Len(json_str) >= 2
    /\ json_str[1] = "{"
    /\ json_str[Len(json_str)] = "}"
    /\ LET members == SubSeq(json_str, 2, Len(json_str) - 1)
       IN  \/ members = << >>
           \/ Len(members) = 1 /\ members[1] \in ColorMembers
           \/ /\ members # << >>
              /\ members[1] = "k"
              /\ is_json(Tail(members))

\* The dictionary json.loads returns for a text it accepts (line 73).
RECURSIVE json_loads(_)
json_loads(json_str) ==
    LET members == SubSeq(json_str, 2, Len(json_str) - 1)
    IN  IF members = << >> THEN EmptyDict
        ELSE IF members[1] \in ColorMembers THEN
            [ colors |-> colors_value(members[1]) ]
        ELSE [ layout |-> json_loads(Tail(members)) ]

\* The dictionary of lines 78-85.
default_design(response) ==
    [ raw_response |-> response,
      concept      |-> "See raw response",
      colors       |-> PyList(<< PyStr("#3498db"), PyStr("#2ecc71"),
                                 PyStr("#f39c12"), PyStr("#e74c3c"),
                                 PyStr("#ffffff") >>),
      typography   |-> "Sans-serif, bold",
      layout       |-> "center",
      image_prompt |-> "professional modern abstract background" ]

\* parse_design_response ending the text at the first closing brace.
parse_design_response_first_close(response) ==
    LET start == find(response, "{")
        end == find(response, "}") + 1
    IN  IF start # -1 /\ end # 0 /\ is_json(slice(response, start, end)) THEN
            [ called |-> TRUE, raised |-> FALSE, parsed |-> TRUE,
              design |-> json_loads(slice(response, start, end)) ]
        ELSE
            [ called |-> TRUE, raised |-> FALSE, parsed |-> FALSE,
              design |-> default_design(response) ]

\* parse_design_response (lines 56-85): what it returns.  json.loads raising
\* on a text it does not accept is caught by the bare except of line 74.
parse_design_response(response) ==
    LET start == find(response, "{")
        end == rfind(response, "}") + 1
    IN  IF start # -1 /\ end # 0 /\ is_json(slice(response, start, end)) THEN
            [ called |-> TRUE, raised |-> FALSE, parsed |-> TRUE,
              design |-> json_loads(slice(response, start, end)) ]
        ELSE
            [ called |-> TRUE, raised |-> FALSE, parsed |-> FALSE,
              design |-> default_design(response) ]

NotParsed ==
    [ called |-> FALSE, raised |-> FALSE, parsed |-> FALSE, design |-> EmptyDict ]

ParseDesignResponse ==
    /\ ~parse.called
    /\ parse' = parse_design_response(design_response)
    /\ UNCHANGED <<design_response, fs, layout_vars, metadata_vars, svg_vars, render_vars, banner_vars, runs_vars, session_vars, gradient_vars>>

IdleParse ==
    /\ design_response = << >>
    /\ parse = NotParsed

(***************************************************************************)
(* BannerDesignAgent, BannerLord.create_banner and the command line.       *)
(***************************************************************************)
\* The application object (bannerlord.py lines 28-31): whether the advisor and
\* the generator have been constructed, the type the generator was constructed
\* with, how many of each were constructed, and how many calls the generator
\* has received.
NewApp ==
    [ agent |-> FALSE, controlnet |-> FALSE, controlnet_type |-> "None",
      agents_built |-> 0, generators_built |-> 0, generator_calls |-> 0 ]

\* self.output_dir = Path("outputs") (line 34)
output_dir == "outputs"

\* self.output_dir / output_name (line 210)
output_base(output_name) == output_dir \o "/" \o output_name

\* A path held as a pathlib.Path (a path held as a str is a PyStr).
PyPath(value) == [ type |-> "Path", value |-> value ]

\* value.name: a Path has the attribute, a str has not (lines 237-239).
has_name(value) == value.type = "Path"

\* BannerDesignAgent.__init__ (banner_agent.py lines 27-33): without a key
\* from the argument or the environment it raises ValueError.
agent_init_raises(env) == ~env.api_key_available

\* initialize_agent (bannerlord.py lines 37-42)
initialize_agent(env, application) ==
    IF application.agent THEN [ app |-> application, err |-> "none" ]
    ELSE IF agent_init_raises(env) THEN
        [ app |-> application, err |-> "ValueError" ]
    ELSE
        [ app |-> [ application EXCEPT !.agent = TRUE,
                                       !.agents_built = @ + 1 ],
          err |-> "none" ]

\* initialize_controlnet constructing a generator whether or not there is one.
initialize_controlnet_always(application, controlnet_type) ==
    [ application EXCEPT !.controlnet = TRUE,
                         !.controlnet_type = controlnet_type,
                         !.generators_built = @ + 1 ]

\* initialize_controlnet (bannerlord.py lines 44-54)
initialize_controlnet(application, controlnet_type) ==
    IF application.controlnet THEN application
    ELSE [ application EXCEPT !.controlnet = TRUE,
                              !.controlnet_type = controlnet_type,
                              !.generators_built = @ + 1 ]

\* A call of one of the generator's methods.
generator_called(application) ==
    [ application EXCEPT !.generator_calls = @ + 1 ]

\* The text design_banner returns when agent.run raised: "Error generating
\* design: ..." (banner_agent.py line 88), a sentence of prose.
ErrorText == << "t", "t" >>

\* design_banner (banner_agent.py lines 66-88): the response of agent.run, or
\* the error text where it raised.
design_banner(env) ==
    IF env.advisor = "raises" THEN ErrorText ELSE env.advisor

\* The hexadecimal digits of a number, most significant first.
RECURSIVE hex_digits(_)
hex_digits(value) ==
    IF value < 16 THEN << value >>
    ELSE Append(hex_digits(value \div 16), value % 16)

\* f'{value:02x}': the digits, padded with a zero to two of them.
format_02x(value) ==
    IF value < 16 THEN << 0, value >> ELSE hex_digits(value)

\* shade = int(44 + (i / height) * 30) (line 169); for 0 <= i < height the
\* float expression truncates to the floor of 44 + 30 * i / height.
shade(i, height) == (44 * height + 30 * i) \div height

\* The three channels of row i (lines 169-170): shade, 62 + i // 20 and 80.
row_channels(i, height) == << shade(i, height), 62 + (i \div 20), 80 >>

\* color = f'#{shade:02x}{62 + i//20:02x}{80:02x}' (line 170): the digits
\* after the '#'.
row_color(i, height) ==
    format_02x(row_channels(i, height)[1])
        \o format_02x(row_channels(i, height)[2])
        \o format_02x(row_channels(i, height)[3])

\* Pillow's ImageColor.getrgb, which draw.line applies to fill (line 171),
\* takes '#' followed by 3, 4, 6 or 8 hexadecimal digits and raises
\* ValueError for any other number of digits.
getrgb_raises(digits) == Len(digits) \notin {3, 4, 6, 8}

\* The fallback gradient (bannerlord.py lines 168-171) raises where the color
\* of one of its rows is no color.
gradient_raises(height) ==
    \E i \in 0 .. height - 1 : getrgb_raises(row_color(i, height))

\* Step 2 with ControlNet (lines 133-160).
controlnet_background(strict, env, files, application, width, height, text_position, output_name) ==
    LET \* line 135: the default controlnet_type, then line 138
        built == generator_called(initialize_controlnet(application, "canny"))
        \* line 152
        generated == generator_called(built)
        control_image == create_control_image(strict, width, height,
                                              text_position, "minimal")
        saved == [ files EXCEPT ![control_path(output_base(output_name))] =
                       PngFile(NewImage(width, height)) ]
    IN  IF control_image.err # "none" THEN
            [ app |-> built, fs |-> files, err |-> control_image.err,
              line |-> 138, background |-> NoImage ]
        ELSE IF env.generator = "raises" THEN
            [ app |-> generated, fs |-> saved, err |-> "RuntimeError",
              line |-> 152, background |-> NoImage ]
        ELSE
            [ app |-> generated,
              fs |-> [ saved EXCEPT ![background_path(output_base(output_name))] =
                         PngFile(NewImage(width, height)) ],
              err |-> "none", line |-> 0,
              background |-> NewImage(width, height) ]

\* Step 2 without ControlNet (lines 162-175).
simple_background(files, application, width, height, output_name) ==
    IF ImageNewRaises(width, height) THEN
        [ app |-> application, fs |-> files, err |-> "ValueError",
          line |-> 165, background |-> NoImage ]
    ELSE IF gradient_raises(height) THEN
        [ app |-> application, fs |-> files, err |-> "ValueError",
          line |-> 171, background |-> NoImage ]
    ELSE
        [ app |-> application,
          fs |-> [ files EXCEPT ![background_path(output_base(output_name))] =
                     PngFile(NewImage(width, height)) ],
          err |-> "none", line |-> 0,
          background |-> NewImage(width, height) ]

\* design_text_color taking the last color of the list.
design_text_color_last(design, text_color) ==
    IF /\ "colors" \in DOMAIN design
       /\ design["colors"].type = "list"
       /\ design["colors"].items # << >>
       /\ design["colors"].items[Len(design["colors"].items)].type = "str"
    THEN design["colors"].items[Len(design["colors"].items)].value
    ELSE text_color

\* The text color after lines 181-182: the first color of the design where
\* 'colors' is a key of the design, its value is a list, the list is not
\* empty and its first item is a str; the caller's color otherwise.
design_text_color(design, text_color) ==
    IF /\ "colors" \in DOMAIN design
       /\ design["colors"].type = "list"
       /\ design["colors"].items # << >>
    THEN IF design["colors"].items[1].type = "str"
         THEN design["colors"].items[1].value
         ELSE text_color
    ELSE text_color

\* The layer of lines 184-194.
banner_layer(text, font_size, text_color, text_position) ==
    [ text |-> text, position |-> PyNone, font_size |-> font_size,
      font_family |-> "Sans", color |-> text_color, alignment |-> text_position,
      stroke_width |-> 3, stroke_color |-> "#000000", shadow |-> TRUE ]

\* {**layer, 'x': width // 2, 'y': height // 2} (lines 226-230)
svg_layer(layer, width, height) ==
    [ k \in DOMAIN layer \cup {"x", "y"} |->
        IF k = "x" THEN width \div 2
        ELSE IF k = "y" THEN height \div 2
        ELSE layer[k] ]

NoCanvas == [ width |-> 0, height |-> 0, paint |-> << >> ]

\* A create_banner call that raised.
BannerRaised(application, files, err, line) ==
    [ called |-> TRUE, err |-> err, line |-> line, app |-> application,
      fs |-> files, returned |-> "", text_layers |-> << >>,
      final |-> NoCanvas ]

\* The element of a one-element set: a statement's outcome, computed once and
\* named for the statements after it.
the(outcomes) == CHOOSE outcome \in outcomes : TRUE

\* Lines 237-241, after the SVG export: the three .name reads and the return.
banner_summary(application, drawn_svg, base, bg_path, metadata_file, svg_file, text_layers, final_banner) ==
    IF drawn_svg.ret.err # "none" THEN
        BannerRaised(application, drawn_svg.fs, drawn_svg.ret.err, 221)
    \* lines 237-239: svg_path.name, metadata_path.name, bg_path.name
    ELSE IF ~( has_name(svg_file) /\ has_name(metadata_file)
               /\ has_name(bg_path) ) THEN
        [ called |-> TRUE, err |-> "AttributeError", line |-> 238,
          app |-> application, fs |-> drawn_svg.fs, returned |-> "",
          text_layers |-> text_layers, final |-> final_banner ]
    ELSE
        \* line 241
        [ called |-> TRUE, err |-> "none", line |-> 241,
          app |-> application, fs |-> drawn_svg.fs,
          returned |-> png_path(base),
          text_layers |-> text_layers, final |-> final_banner ]

\* Lines 220-241, after export_with_metadata: bg_path and metadata_path are
\* the str values it returned, svg_path is a Path.
banner_svg(application, exported_files, base, width, height, text_layers, final_banner) ==
    IF exported_files.ret.err # "none" THEN
        BannerRaised(application, exported_files.fs, exported_files.ret.err, 212)
    ELSE
        the({ banner_summary(application, drawn_svg, base,
                             PyStr(exported_files.ret.bg_path),
                             PyStr(exported_files.ret.metadata_path),
                             PyPath(svg_path(base)), text_layers, final_banner) :
              drawn_svg \in
                { export_as_svg(exported_files.fs, svg_path(base), width, height,
                                exported_files.ret.bg_path,
                                [ i \in 1 .. Len(text_layers) |->
                                    svg_layer(text_layers[i], width, height) ]) } })

\* Step 4 (lines 203-241): the PNG, the metadata export, the SVG export.
banner_exports(application, files, base, background, width, height, text_layers, final_banner) ==
    the({ banner_svg(application, exported_files, base, width, height,
                     text_layers, final_banner) :
          exported_files \in
            { export_with_metadata(
                  [ files EXCEPT ![png_path(base)] = PngFile(final_banner) ],
                  base, background, text_layers) } })

\* Steps 3 and 4 (lines 177-241), after the background was produced.
banner_composite(env, step2, base, width, height, text_layers) ==
    the({ banner_exports(step2.app, step2.fs, base, step2.background, width,
                         height, text_layers, composite.heap[composite.img]) :
          composite \in
            { create_composite_banner(step2.fs, << Canvas(step2.background) >>,
                                      1, text_layers, NoOutputPath,
                                      env.fonts) } })

\* Lines 177-241 with the outcome of step 2.
banner_text(env, step2, design, text, width, height, text_position, font_size, text_color, use_controlnet, output_name) ==
    IF step2.err # "none" THEN
        BannerRaised(step2.app, step2.fs, step2.err, step2.line)
    ELSE
        the({ banner_composite(env, step2, output_base(output_name), width,
                               height, text_layers) :
              text_layers \in
                { << banner_layer(text, font_size,
                                  design_text_color(design, text_color),
                                  text_position) >> } })

\* Lines 123-241 with the outcome of initialize_agent.
banner_design(strict, env, files, advisor, text, width, height, text_position, font_size, text_color, use_controlnet, output_name) ==
    IF advisor.err # "none" THEN
        BannerRaised(advisor.app, files, advisor.err, 122)
    ELSE
        the({ banner_text(env, step2, design, text, width, height,
                          text_position, font_size, text_color, use_controlnet,
                          output_name) :
              \* lines 123-130
              design \in { parse_design_response(design_banner(env)).design },
              \* lines 133-175
              step2 \in
                { IF use_controlnet
                  THEN controlnet_background(strict, env, files, advisor.app,
                           width, height, text_position, output_name)
                  ELSE simple_background(files, advisor.app, width, height,
                           output_name) } })

\* create_banner (bannerlord.py lines 87-241): the application and the file
\* system it leaves, and the path it returns or the exception it raises.
create_banner(strict, env, files, application, text, width, height, text_position, font_size, text_color, use_controlnet, output_name) ==
    the({ banner_design(strict, env, files, advisor, text, width, height,
                        text_position, font_size, text_color, use_controlnet,
                        output_name) :
          \* line 122
          advisor \in { initialize_agent(env, application) } })

NoBanner ==
    [ called |-> FALSE, err |-> "none", line |-> 0, app |-> NewApp,
      fs |-> EmptyFs, returned |-> "", text_layers |-> << >>,
      final |-> NoCanvas ]

\* Lines 351-356 with the outcome of the create_banner call.
main_exit(made) ==
    IF made.err = "none" THEN
        [ called |-> TRUE, exit_code |-> 0, stderr |-> "", banner |-> made ]
    ELSE
        [ called |-> TRUE, exit_code |-> 1, stderr |-> made.err,
          banner |-> made ]

\* main (bannerlord.py lines 332-356): the exit code, what is printed on
\* stderr, and the outcome of the create_banner call it made, if it made one.
main(strict, env, files, args) ==
    IF ~env.output_dir_creatable THEN
        \* self.output_dir.mkdir raises in BannerLord.__init__ (line 35)
        [ called |-> TRUE, exit_code |-> 1, stderr |-> "OSError",
          banner |-> NoBanner ]
    ELSE
        the({ main_exit(made) :
              made \in { create_banner(strict, env, files, NewApp, args.text,
                             args.width, args.height, args.position,
                             args.font_size, args.color, ~args.no_controlnet,
                             args.output) } })

NotRun == [ called |-> FALSE, exit_code |-> 0, stderr |-> "", banner |-> NoBanner ]

\* What the advisor answers: agent.run raises, or returns prose, a JSON
\* object with colors inside prose, a JSON object without colors, or a JSON
\* object whose colors are an empty list, a list of a number, or a string.
AdvisorOutcomes ==
    { "raises", << "t" >>, << "t", "{", "c", "}", "t" >>, << "{", "}" >>,
      << "{", "e", "}" >>, << "{", "n", "}" >>, << "t", "{", "s", "}" >> }

\* The process environment of a run: the key, the output directory, the
\* advisor, the image generator and the font.
Environments ==
    [ api_key_available : BOOLEAN,
      output_dir_creatable : BOOLEAN,
      advisor : AdvisorOutcomes,
      generator : { "raises", "image" },
      fonts : RunFonts ]

\* The canvas sizes of a run: the default, the one of examples.py lines
\* 40-41, and one too small for a text-area beside the padding.
BannerSizes == { <<default_width, default_height>>, <<1920, 1080>>, <<90, 120>> }

\* The parsed command line (lines 263-332).
Arguments ==
    { [ text |-> "INNOVATE", width |-> size[1], height |-> size[2],
        position |-> position, font_size |-> 72, color |-> color,
        no_controlnet |-> no_controlnet, output |-> output ] :
      size \in BannerSizes, position \in KnownPositions,
      color \in { "#FFFFFF", "#FFD700" }, no_controlnet \in BOOLEAN,
      output \in { "banner", "promo" } }

Main ==
    /\ ~cli.called
    /\ \E out \in { main(pil_strict, environment, fs, cli_args) } :
           /\ cli' = out
           /\ IF out.banner.called THEN fs' = out.banner.fs ELSE fs' = fs
    /\ UNCHANGED <<pil_strict, environment, cli_args, request, control,
                   metadata_vars, svg_vars, render_vars, parse_vars, runs_vars,
                   session_vars, gradient_vars>>

IdleEnvironment ==
    [ api_key_available |-> TRUE, output_dir_creatable |-> TRUE,
      advisor |-> << "t" >>, generator |-> "image",
      fonts |-> IdleFonts ]

IdleArguments ==
    [ text |-> "INNOVATE", width |-> default_width, height |-> default_height,
      position |-> "center", font_size |-> 72, color |-> "#FFFFFF",
      no_controlnet |-> FALSE, output |-> "banner" ]

IdleBanner ==
    /\ environment = IdleEnvironment
    /\ cli_args = IdleArguments
    /\ cli = NotRun

(***************************************************************************)
(* Two create_banner runs writing into the same output directory, one file *)
(* write at a time, in any interleaving.                                   *)
(***************************************************************************)
\* The files a create_banner call writes, in the order it writes them: the
\* control image (line 147) where ControlNet is used, the background (line
\* 160 or 174), the final PNG (line 207), the background again and the
\* metadata (export_with_metadata, banner_compositor.py lines 189 and 200),
\* the SVG (line 231).
banner_writes(output_name, use_controlnet) ==
    LET base == output_base(output_name)
    IN  ( IF use_controlnet THEN << control_path(base) >> ELSE << >> )
        \o << background_path(base), png_path(base), background_path(base),
              metadata_path(base), svg_path(base) >>

\* Output names a caller may give (--output, lines 319-324).
RunNames == { "banner", "promo", "banner_background", "banner_control" }

\* Two runs with different output names.
RunPairs ==
    { pair \in [ 1 .. 2 -> [ output_name : RunNames, use_controlnet : BOOLEAN ] ] :
        pair[1].output_name # pair[2].output_name }

\* Run r writes its next file.
WriteFile(r) ==
    LET writes == banner_writes(runs[r].output_name, runs[r].use_controlnet)
    IN  /\ run_pc[r] < Len(writes)
        /\ written' = written \cup { << writes[run_pc[r] + 1], r >> }
        /\ run_pc' = [ run_pc EXCEPT ![r] = @ + 1 ]
        /\ UNCHANGED <<runs, fs, layout_vars, metadata_vars, svg_vars,
                       render_vars, parse_vars, banner_vars, session_vars,
                       gradient_vars>>

WriteNextFile == \E r \in 1 .. 2 : WriteFile(r)

IdleRunPair ==
    [ r \in 1 .. 2 |->
        [ output_name |-> IF r = 1 THEN "banner" ELSE "promo",
          use_controlnet |-> FALSE ] ]

IdleRuns ==
    /\ runs = IdleRunPair
    /\ run_pc = [ r \in 1 .. 2 |-> 0 ]
    /\ written = {}

(***************************************************************************)
(* One BannerLord object over a sequence of initialize_agent,              *)
(* initialize_controlnet and create_banner calls.                          *)
(***************************************************************************)
\* The controlnet_type arguments of initialize_controlnet (line 44 and
\* controlnet_generator.py lines 52-57).
ControlnetTypes == { "canny", "depth" }

\* The create_banner calls of a session: with and without ControlNet, on the
\* default canvas and on one too small for the text-area on the left.
SessionBanners ==
    { [ use_controlnet |-> use_controlnet, width |-> size[1],
        height |-> size[2], text_position |-> size[3] ] :
      use_controlnet \in BOOLEAN,
      size \in { <<default_width, default_height, "center">>,
                 <<90, 120, "left">> } }

\* The environments of a session.
SessionEnvironments ==
    [ api_key_available : BOOLEAN,
      output_dir_creatable : { TRUE },
      advisor : { "raises", << "t", "{", "c", "}", "t" >> },
      generator : { "raises", "image" },
      fonts : { [ files |-> DejaVuFiles, unreadable |-> {}, bbox |-> <<0, 11, 131, 46>> ] } ]

\* A call as the session remembers it: the operation, its arguments, the
\* application before and after it, and the exception it raised.
SessionCall(op, controlnet_type, use_controlnet, before, after, err) ==
    [ op |-> op, controlnet_type |-> controlnet_type,
      use_controlnet |-> use_controlnet, before |-> before, after |-> after,
      err |-> err ]

InitializeAgent ==
    /\ Len(session) < MaxCalls
    /\ \E out \in { initialize_agent(environment, app) } :
          /\ app' = out.app
          /\ session' = Append(session,
                 SessionCall("initialize_agent", "", FALSE, app, out.app, out.err))
    /\ UNCHANGED <<pil_strict, environment, cli_args, cli, fs, request, control,
                   metadata_vars, svg_vars, render_vars, parse_vars, runs_vars,
                   gradient_vars>>

InitializeControlnet ==
    /\ Len(session) < MaxCalls
    /\ \E controlnet_type \in ControlnetTypes :
       \E out \in { initialize_controlnet(app, controlnet_type) } :
          /\ app' = out
          /\ session' = Append(session,
                 SessionCall("initialize_controlnet", controlnet_type, FALSE,
                             app, out, "none"))
    /\ UNCHANGED <<pil_strict, environment, cli_args, cli, fs, request, control,
                   metadata_vars, svg_vars, render_vars, parse_vars, runs_vars,
                   gradient_vars>>

CreateBanner ==
    /\ Len(session) < MaxCalls
    /\ \E call \in SessionBanners :
       \E out \in { create_banner(pil_strict, environment, fs, app, "INNOVATE",
                                  call.width, call.height, call.text_position,
                                  72, "#FFFFFF", call.use_controlnet, "banner") } :
          /\ app' = out.app
          /\ fs' = out.fs
          /\ session' = Append(session,
                 SessionCall("create_banner", "", call.use_controlnet, app,
                             out.app, out.err))
    /\ UNCHANGED <<pil_strict, environment, cli_args, cli, request, control,
                   metadata_vars, svg_vars, render_vars, parse_vars, runs_vars,
                   gradient_vars>>

IdleSession ==
    /\ app = NewApp
    /\ session = << >>

(***************************************************************************)
(* The fallback background of create_banner (lines 162-171), row by row:   *)
(* the canvas is new and the loop paints one line per row, from row 0.     *)
(***************************************************************************)
\* The tallest canvas painted.
MaxGradientHeight == 3881

GradientHeights == { 120, default_height, 1080, MaxGradientHeight }

\* Before the first row: no color computed yet.
NewGradient == [ i |-> 0, channels |-> << >>, color |-> << >>, err |-> "none" ]

\* One turn of the loop of lines 168-171 for row i: the color is computed and
\* draw.line paints the row with it, or raises and ends the loop.
PaintRow ==
    /\ gradient.err = "none"
    /\ gradient.i < gradient_height
    /\ \E painted \in { row_color(gradient.i, gradient_height) } :
          gradient' =
              [ i        |-> IF getrgb_raises(painted) THEN gradient.i
                             ELSE gradient.i + 1,
                channels |-> row_channels(gradient.i, gradient_height),
                color    |-> painted,
                err      |-> IF getrgb_raises(painted) THEN "ValueError"
                             ELSE "none" ]
    /\ UNCHANGED <<gradient_height, fs, layout_vars, metadata_vars, svg_vars,
                   render_vars, parse_vars, banner_vars, runs_vars,
                   session_vars>>

IdleGradient ==
    /\ gradient_height = 0
    /\ gradient = NewGradient

(***************************************************************************)
(* Specifications: one per component; the other components stay idle.      *)
(***************************************************************************)
IdleRequest ==
    [ width |-> default_width, height |-> default_height,
      text_position |-> "center", layout_type |-> "minimal" ]

IdleDocument ==
    [ output_path |-> "outputs/banner",
      background |-> NewImage(default_width, default_height),
      text_layers |-> << >> ]

IdleSvgRequest ==
    [ output_path |-> svg_path("outputs/banner"), width |-> default_width,
      height |-> default_height,
      background_image_path |-> background_path("outputs/banner"),
      text_layers |-> << >> ]

InitLayout ==
    /\ pil_strict \in BOOLEAN
    /\ request \in Requests
    /\ control = NoControl
    /\ document = IdleDocument
    /\ fs = EmptyFs
    /\ exported = NotExported
    /\ loaded = NotLoaded
    /\ svg_request = IdleSvgRequest
    /\ svg = NotDrawn
    /\ IdleRender
    /\ IdleParse
    /\ IdleBanner
    /\ IdleRuns
    /\ IdleSession
    /\ IdleGradient

NextLayout == CreateControlImage

SpecLayout == InitLayout /\ [][NextLayout]_vars

InitMetadata ==
    /\ pil_strict = TRUE
    /\ request = IdleRequest
    /\ control = NoControl
    /\ document \in Documents
    /\ fs = EmptyFs
    /\ exported = NotExported
    /\ loaded = NotLoaded
    /\ svg_request = IdleSvgRequest
    /\ svg = NotDrawn
    /\ IdleRender
    /\ IdleParse
    /\ IdleBanner
    /\ IdleRuns
    /\ IdleSession
    /\ IdleGradient

NextMetadata ==
    \/ ExportWithMetadata
    \/ LoadFromMetadata
    \/ EditMetadata
    \/ DeleteBackground

SpecMetadata == InitMetadata /\ [][NextMetadata]_vars

InitSvg ==
    /\ pil_strict = TRUE
    /\ request = IdleRequest
    /\ control = NoControl
    /\ document = IdleDocument
    /\ fs = EmptyFs
    /\ exported = NotExported
    /\ loaded = NotLoaded
    /\ svg_request \in SvgRequests
    /\ svg = NotDrawn
    /\ IdleRender
    /\ IdleParse
    /\ IdleBanner
    /\ IdleRuns
    /\ IdleSession
    /\ IdleGradient

NextSvg == ExportAsSvg

SpecSvg == InitSvg /\ [][NextSvg]_vars

InitRender ==
    /\ pil_strict = TRUE
    /\ request = IdleRequest
    /\ control = NoControl
    /\ document = IdleDocument
    /\ fs = EmptyFs
    /\ exported = NotExported
    /\ loaded = NotLoaded
    /\ svg_request = IdleSvgRequest
    /\ svg = NotDrawn
    /\ render_request \in RenderRequests
    /\ heap = << Canvas(render_request.background) >>
    /\ renders = << >>
    /\ IdleParse
    /\ IdleBanner
    /\ IdleRuns
    /\ IdleSession
    /\ IdleGradient

NextRender ==
    \/ AddTextToBanner
    \/ CreateCompositeBanner

SpecRender == InitRender /\ [][NextRender]_vars

InitParse ==
    /\ pil_strict = TRUE
    /\ request = IdleRequest
    /\ control = NoControl
    /\ document = IdleDocument
    /\ fs = EmptyFs
    /\ exported = NotExported
    /\ loaded = NotLoaded
    /\ svg_request = IdleSvgRequest
    /\ svg = NotDrawn
    /\ IdleRender
    /\ design_response \in Responses
    /\ parse = NotParsed
    /\ IdleBanner
    /\ IdleRuns
    /\ IdleSession
    /\ IdleGradient

NextParse == ParseDesignResponse

SpecParse == InitParse /\ [][NextParse]_vars

InitBanner ==
    /\ pil_strict \in BOOLEAN
    /\ request = IdleRequest
    /\ control = NoControl
    /\ document = IdleDocument
    /\ fs = EmptyFs
    /\ exported = NotExported
    /\ loaded = NotLoaded
    /\ svg_request = IdleSvgRequest
    /\ svg = NotDrawn
    /\ IdleRender
    /\ IdleParse
    /\ environment \in Environments
    /\ cli_args \in Arguments
    /\ cli = NotRun
    /\ IdleRuns
    /\ IdleSession
    /\ IdleGradient

NextBanner == Main

SpecBanner == InitBanner /\ [][NextBanner]_vars

InitRuns ==
    /\ pil_strict = TRUE
    /\ request = IdleRequest
    /\ control = NoControl
    /\ document = IdleDocument
    /\ fs = EmptyFs
    /\ exported = NotExported
    /\ loaded = NotLoaded
    /\ svg_request = IdleSvgRequest
    /\ svg = NotDrawn
    /\ IdleRender
    /\ IdleParse
    /\ IdleBanner
    /\ runs \in RunPairs
    /\ run_pc = [ r \in 1 .. 2 |-> 0 ]
    /\ written = {}
    /\ IdleSession
    /\ IdleGradient

NextRuns == WriteNextFile

SpecRuns == InitRuns /\ [][NextRuns]_vars

InitSession ==
    /\ pil_strict \in BOOLEAN
    /\ request = IdleRequest
    /\ control = NoControl
    /\ document = IdleDocument
    /\ fs = EmptyFs
    /\ exported = NotExported
    /\ loaded = NotLoaded
    /\ svg_request = IdleSvgRequest
    /\ svg = NotDrawn
    /\ IdleRender
    /\ IdleParse
    /\ environment \in SessionEnvironments
    /\ cli_args = IdleArguments
    /\ cli = NotRun
    /\ IdleRuns
    /\ app = NewApp
    /\ session = << >>
    /\ IdleGradient

NextSession ==
    \/ InitializeAgent
    \/ InitializeControlnet
    \/ CreateBanner

SpecSession == InitSession /\ [][NextSession]_vars

InitGradient ==
    /\ pil_strict = TRUE
    /\ request = IdleRequest
    /\ control = NoControl
    /\ document = IdleDocument
    /\ fs = EmptyFs
    /\ exported = NotExported
    /\ loaded = NotLoaded
    /\ svg_request = IdleSvgRequest
    /\ svg = NotDrawn
    /\ IdleRender
    /\ IdleParse
    /\ IdleBanner
    /\ IdleRuns
    /\ IdleSession
    /\ gradient_height \in GradientHeights
    /\ gradient = NewGradient

NextGradient == PaintRow

SpecGradient == InitGradient /\ [][NextGradient]_vars

(***************************************************************************)
(* Properties of the layout planner.                                       *)
(***************************************************************************)
RegionsWithRole(regions, role) ==
    { i \in 1 .. Len(regions) : regions[i].role = role }

BoxWithin(box, width, height) ==
    /\ 0 <= box[1] /\ box[1] <= width
    /\ 0 <= box[3] /\ box[3] <= width
    /\ 0 <= box[2] /\ box[2] <= height
    /\ 0 <= box[4] /\ box[4] <= height

\* The call was made on a canvas of positive size.
PositiveCanvas == control.called /\ control.width > 0 /\ control.height > 0

\* The call returned an image.
Returned == control.called /\ control.err = "none"

\* The box of the text-area the returned image shows (its last shape).
TextArea == control.regions[Len(control.regions)].box

\* C1: for every canvas of positive size, every layout style in {minimal,
\* geometric, split} and every text position in {left, center, right, top,
\* bottom}, the layout is built, every region's coordinates lie within
\* [0,width] x [0,height], and exactly one region is a text-area.
C1_RegionsWithinCanvas ==
    ( /\ PositiveCanvas
      /\ control.layout_type \in KnownLayouts
      /\ control.text_position \in KnownPositions )
    => /\ control.err = "none"
       /\ \A i \in 1 .. Len(control.regions) :
              BoxWithin(control.regions[i].box, control.width, control.height)
       /\ Cardinality(RegionsWithRole(control.regions, "text-area")) = 1

\* C2: for every positive width and height and every text position, the
\* text-area box produced satisfies x0 < x1 and y0 < y1.
C2_TextAreaNonDegenerate ==
    ( /\ PositiveCanvas
      /\ Returned
      /\ control.text_position \in KnownPositions )
    => /\ TextArea[1] < TextArea[3]
       /\ TextArea[2] < TextArea[4]

\* C3: the text-area of every returned image is the documented function of the
\* text position with pad = 50, whatever the width, height and layout style:
\* center [w/4,3w/4] x [h/3,2h/3]; left [pad,w/2-pad] x [h/4,3h/4];
\* right [w/2+pad,w-pad] x [h/4,3h/4]; top [pad,w-pad] x [pad,h/3];
\* bottom [pad,w-pad] x [2h/3,h-pad]; there is exactly one, drawn last.
C3_TextAreaExtents ==
    Returned =>
        LET w == control.width
            h == control.height
            p == control.text_position
        IN  /\ RegionsWithRole(control.regions, "text-area")
                  = { Len(control.regions) }
            /\ p = "center" =>
                 TextArea = <<w \div 4, h \div 3, (3 * w) \div 4, (2 * h) \div 3>>
            /\ p = "left" =>
                 TextArea = <<50, h \div 4, w \div 2 - 50, (3 * h) \div 4>>
            /\ p = "right" =>
                 TextArea = <<w \div 2 + 50, h \div 4, w - 50, (3 * h) \div 4>>
            /\ p = "top" =>
                 TextArea = <<50, 50, w - 50, h \div 3>>
            /\ p = "bottom" =>
                 TextArea = <<50, (2 * h) \div 3, w - 50, h - 50>>

\* A right-hand text-area on the default canvas under the geometric layout.
C3_Witness ==
    /\ Returned
    /\ control.text_position = "right"
    /\ control.layout_type = "geometric"
    /\ control.width = default_width
    /\ control.height = default_height

\* C4: a text position outside {left, center, right, top, bottom} is no error
\* on any canvas of positive size, and the call's outcome (error or regions) is
\* the one the same call gives for center, the text-area being the center box.
C4_UnknownPositionIsCenter ==
    ( control.called /\ control.text_position \notin KnownPositions ) =>
        LET center == create_control_image(pil_strict, control.width,
                          control.height, "center", control.layout_type)
        IN  /\ control.err = center.err
            /\ control.regions = center.regions
            /\ control.size = center.size
            /\ PositiveCanvas =>
                 /\ control.err = "none"
                 /\ TextArea = << control.width \div 4, control.height \div 3,
                                  (3 * control.width) \div 4,
                                  (2 * control.height) \div 3 >>

\* An unknown position on a canvas where the top box differs from the center one.
C4_Witness ==
    /\ Returned
    /\ control.text_position = "diagonal"
    /\ control.width = 201
    /\ control.height = 151

\* C5: the guidance regions of a returned image are decided by the layout
\* style: minimal gives one border and no divider; geometric the border and
\* two vertical dividers, at x = width/3 and x = 2*width/3, in that order;
\* split the border and one vertical divider at x = width/2; and the image
\* has the requested (width, height).
C5_GuidanceByLayout ==
    Returned =>
        LET w == control.width
            h == control.height
            regs == control.regions
            borders == RegionsWithRole(regs, "guidance-border")
            dividers == RegionsWithRole(regs, "guidance-divider")
            Vertical(i, x) == regs[i].shape = "line" /\ regs[i].box = <<x, 0, x, h>>
        IN  /\ control.size = <<w, h>>
            /\ \A i \in borders :
                 regs[i].shape = "rectangle" /\ regs[i].box = <<0, 0, w - 1, h - 1>>
            /\ control.layout_type = "minimal" =>
                 borders = {1} /\ dividers = {}
            /\ control.layout_type = "geometric" =>
                 /\ borders = {1} /\ dividers = {2, 3}
                 /\ Vertical(2, w \div 3)
                 /\ Vertical(3, (2 * w) \div 3)
            /\ control.layout_type = "split" =>
                 /\ borders = {1} /\ dividers = {2}
                 /\ Vertical(2, w \div 2)

\* A geometric layout on the default canvas.
C5_Witness ==
    /\ Returned
    /\ control.layout_type = "geometric"
    /\ control.width = default_width
    /\ control.height = default_height
    /\ control.text_position = "center"

\* C6: the call fails exactly when width <= 0 or height <= 0, and a failed
\* call produces no regions.
C6_InvalidDimensionsOnly ==
    control.called =>
        /\ (control.err # "none") <=> (control.width <= 0 \/ control.height <= 0)
        /\ control.err # "none" => control.regions = << >>

(***************************************************************************)
(* Properties of the compositor's export and import.                       *)
(***************************************************************************)
\* The files of the session's document are exactly what export_with_metadata
\* writes for it: nothing has touched them since.
AsExported ==
    /\ exported.called
    /\ exported.err = "none"
    /\ fs = export_with_metadata(fs, document.output_path, document.background,
                                 document.text_layers).fs

\* C7: load_from_metadata applied to the metadata file written by
\* export_with_metadata returns a background of the original width and height
\* and a layer list equal to the original, field for field and in order (so an
\* unset position comes back unset).
C7_RoundTrip ==
    [][ ( LoadFromMetadata /\ AsExported )
        => /\ loaded'.returned
           /\ loaded'.background.width = document.background.width
           /\ loaded'.background.height = document.background.height
           /\ loaded'.text_layers = document.text_layers ]_vars

\* A JSON object of the metadata file holds the fields of a layer: the same
\* keys, the same values, a position with the same coordinates.
HoldsLayer(obj, layer) ==
    /\ DOMAIN obj = DOMAIN layer
    /\ \A k \in DOMAIN layer :
         IF k \in SequenceKeys THEN obj[k].items = layer[k].items
         ELSE obj[k] = layer[k]

\* C8: a call of export_with_metadata that returns has written a background
\* file and a metadata document and returns their two paths; the document's
\* width and height are the background's, its background field is the returned
\* background path, and its text_layers has the length and the order of the
\* layer list passed in.
C8_ExportWritesDocument ==
    [][ ( ExportWithMetadata /\ exported'.err = "none" )
        => LET bg == exported'.bg_path
               md == exported'.metadata_path
           IN  /\ bg # md
               /\ fs'[bg].kind = "png"
               /\ fs'[bg].width = document.background.width
               /\ fs'[bg].height = document.background.height
               /\ fs'[md].kind = "json"
               /\ fs'[md].doc["width"] = document.background.width
               /\ fs'[md].doc["height"] = document.background.height
               /\ fs'[md].doc["background"] = bg
               /\ Len(fs'[md].doc["text_layers"]) = Len(document.text_layers)
               /\ \A i \in 1 .. Len(document.text_layers) :
                    HoldsLayer(fs'[md].doc["text_layers"][i],
                               document.text_layers[i]) ]_vars

\* An export of two different layers on a background that is not square has
\* returned, and its files are in place.
C8_Witness ==
    /\ AsExported
    /\ Len(document.text_layers) = 2
    /\ document.text_layers[1] = layer_test
    /\ document.text_layers[2] = layer_banner
    /\ document.background = NewImage(800, 400)
    /\ exported.metadata_path = "outputs/promo_metadata.json"

\* What a load of the metadata file at path finds wrong, given the fields
\* that are required: the required fields the document lacks, and the
\* background path it names when no file is there.
Lacking(path, required) == required \ DOMAIN fs[path].doc

DanglingBackground(path) ==
    IF /\ "background" \in DOMAIN fs[path].doc
       /\ ~Exists(fs, fs[path].doc["background"])
    THEN { fs[path].doc["background"] }
    ELSE { }

\* The load failed, returned nothing, and its error names one of the things
\* in wrong.
FailsNaming(result, wrong) ==
    /\ result.err # "none"
    /\ ~result.returned
    /\ result.background = NoImage
    /\ result.text_layers = << >>
    /\ result.missing \in wrong

\* C9: a load of a metadata document that lacks one of width, height,
\* background, text_layers, or whose background path does not exist, fails
\* with a MalformedMetadata error naming what is missing and returns nothing.
C9_AllFieldsRequired ==
    [][ ( LoadFromMetadata /\ Exists(fs, metadata_path(document.output_path)) )
        => LET path == metadata_path(document.output_path)
               wrong == Lacking(path, MetadataFields)
                            \cup DanglingBackground(path)
           IN  wrong # { } =>
                   /\ FailsNaming(loaded', wrong)
                   /\ loaded'.err = "MalformedMetadata" ]_vars

\* The attribute of a text node that each layer field sets.
TextAttributes ==
    { <<"x", "x">>, <<"y", "y">>, <<"font_size", "font_size">>,
      <<"font_family", "font_family">>, <<"fill", "color">>,
      <<"stroke", "stroke_color">>, <<"stroke_width", "stroke_width">> }

\* C10: export_as_svg for a canvas (width, height) and N layers emits a
\* document whose first node is its only image node, at (0,0), of size
\* (width, height), referencing the background by path, followed by N text
\* nodes in layer order, each with text-anchor = middle and with x, y,
\* font-size, font-family, fill, stroke and stroke-width taken from the
\* layer's x, y, font_size, font_family, color, stroke_color, stroke_width.
C10_SvgDocument ==
    ( svg.called /\ svg.err = "none" ) =>
        LET nodes == svg.drawing.nodes
            layers == svg_request.text_layers
        IN  /\ fs[svg_request.output_path] = SvgFile(svg.drawing)
            /\ Len(nodes) = Len(layers) + 1
            /\ { i \in 1 .. Len(nodes) : nodes[i].tag = "image" } = {1}
            /\ nodes[1].href = svg_request.background_image_path
            /\ nodes[1].x = 0 /\ nodes[1].y = 0
            /\ nodes[1].width = svg_request.width
            /\ nodes[1].height = svg_request.height
            /\ \A i \in 1 .. Len(layers) :
                 /\ nodes[i + 1].tag = "text"
                 /\ nodes[i + 1].text_anchor = "middle"
                 /\ "text" \in DOMAIN layers[i] =>
                        nodes[i + 1].text = layers[i]["text"]
                 /\ \A a \in TextAttributes :
                      a[2] \in DOMAIN layers[i] =>
                        nodes[i + 1][a[1]] = layers[i][a[2]]

\* The example's layer and the banner's layer, exported on a 1200 x 400 canvas.
C10_Witness ==
    /\ svg.called
    /\ svg.err = "none"
    /\ svg_request.width = 1200
    /\ svg_request.height = 400
    /\ svg_request.text_layers = << layer_editable, layer_banner_svg >>

(***************************************************************************)
(* Properties of the renderer.                                             *)
(***************************************************************************)
\* The rendering calls that returned an image.
ReturnedCalls == { k \in DOMAIN renders : renders[k].err = "none" }
AddTextCalls == { k \in ReturnedCalls : renders[k].op = "add_text_to_banner" }
CompositeCalls == { k \in ReturnedCalls : renders[k].op = "create_composite_banner" }

\* What a call painted on top of what its background held.
Painted(call) ==
    SubSeq(heap[call.img].paint, Len(call.was.paint) + 1,
           Len(heap[call.img].paint))

\* C11: the canvas add_text_to_banner returns and the canvas
\* create_composite_banner returns have exactly the width and the height of
\* the background given, for every background and every element sequence.
C11_CanvasSizePreserved ==
    \A k \in ReturnedCalls :
        /\ heap[renders[k].img].width = renders[k].was.width
        /\ heap[renders[k].img].height = renders[k].was.height

\* Two elements composited on the 800 x 400 background, and one element added
\* to it.
C11_Witness ==
    /\ \E k \in CompositeCalls :
          /\ Len(renders[k].elements) = 2
          /\ renders[k].background = 1
          /\ heap[renders[k].img].width = 800
          /\ heap[renders[k].img].height = 400
    /\ AddTextCalls # {}

\* C12: rendering never changes the canvas it is given: after any rendering
\* calls the background still holds what it held at the call, the returned
\* image is another object, and two calls of the same operation with the
\* same background and elements return images of the same content.
C12_BackgroundNotMutated ==
    /\ \A k \in DOMAIN renders :
          heap[renders[k].background] = renders[k].was
    /\ \A k \in ReturnedCalls : renders[k].img > renders[k].allocated
    /\ \A k, m \in ReturnedCalls :
          ( /\ renders[k].op = renders[m].op
            /\ renders[k].background = renders[m].background
            /\ renders[k].elements = renders[m].elements )
          => heap[renders[k].img] = heap[renders[m].img]

\* The same non-empty rendering made twice on the first background.
C12_Witness ==
    /\ Len(renders) = 2
    /\ ReturnedCalls = {1, 2}
    /\ renders[1].op = renders[2].op
    /\ renders[1].background = 1
    /\ renders[2].background = 1
    /\ renders[1].elements = renders[2].elements
    /\ renders[1].elements # << >>
    /\ renders[1].img # renders[2].img
    /\ heap[renders[1].img].paint # << >>

\* C13: when the position is None the box the text covers is centered on the
\* canvas: for every canvas W x H and every box (left, top, right, bottom)
\* measured at the origin, the center of the box covered by the main pass is
\* (W/2, H/2) within half a pixel.
C13_AutoCentered ==
    \A k \in AddTextCalls :
        Get(renders[k].elements[1], "position", PyNone) = PyNone =>
            LET ops == Painted(renders[k])
                main_pass == ops[Len(ops)]
                box == textbbox(main_pass.xy, render_request.fonts.bbox)
                W == heap[renders[k].img].width
                H == heap[renders[k].img].height
            IN  /\ (box[1] + box[3]) - W \in -1 .. 1
                /\ (box[2] + box[4]) - H \in -1 .. 1

\* The canvas that painting the elements one after the other gives, each on
\* the canvas the one before it gave.
Rendered(canvas, element, fonts) ==
    LET out == add_element(<< canvas >>, 1, element, fonts)
    IN  out.heap[out.img]

RECURSIVE FoldLeft(_, _, _)
FoldLeft(canvas, elements, fonts) ==
    IF elements = << >> THEN canvas
    ELSE FoldLeft(Rendered(canvas, Head(elements), fonts), Tail(elements),
                  fonts)

\* The number of draw.text passes an element takes.
Passes(element) == IF Get(element, "shadow", TRUE) THEN 2 ELSE 1

RECURSIVE PassesUpTo(_, _)
PassesUpTo(elements, n) ==
    IF n = 0 THEN 0 ELSE PassesUpTo(elements, n - 1) + Passes(elements[n])

\* C19: create_composite_banner renders the elements in list order, each on
\* top of the ones before: the canvas returned is the left-to-right fold of
\* add_text_to_banner over the list from the background, the passes of
\* element n come right after those of elements 1 .. n-1 and show its text,
\* and for the empty list the canvas has the content and size of the
\* background.
C19_FoldInListOrder ==
    \A k \in CompositeCalls :
        LET call == renders[k]
            ops == Painted(call)
        IN  /\ heap[call.img] = FoldLeft(call.was, call.elements,
                                         render_request.fonts)
            /\ Len(ops) = PassesUpTo(call.elements, Len(call.elements))
            /\ \A n \in DOMAIN call.elements :
                  \A j \in PassesUpTo(call.elements, n - 1) + 1
                           .. PassesUpTo(call.elements, n) :
                      ops[j].text = Get(call.elements[n], "text", "")
            /\ call.elements = << >> => heap[call.img] = call.was

\* Two different elements composited in one call, each painted.
C19_Witness ==
    /\ \E k \in CompositeCalls :
          /\ Len(renders[k].elements) = 2
          /\ renders[k].elements[1] # renders[k].elements[2]
          /\ Len(Painted(renders[k])) >= 2
    /\ render_request.text_elements # << >>

\* C20: add_text_to_banner with shadow true paints the shadow first and the
\* main text second, the shadow at the resolved position moved by exactly
\* (+3, +3) and with the stroke width of the main pass; with shadow false it
\* paints the main text only; the main text is at the resolved position.
C20_ShadowBeforeMain ==
    \A k \in AddTextCalls :
        LET element == renders[k].elements[1]
            ops == Painted(renders[k])
            main_pass == ops[Len(ops)]
            position == Get(element, "position", PyNone)
        IN  /\ position # PyNone => main_pass.xy = position.items
            /\ main_pass.fill = Get(element, "color", "#FFFFFF")
            /\ main_pass.stroke_width = Get(element, "stroke_width", 2)
            /\ Get(element, "shadow", TRUE) =>
                  /\ Len(ops) = 2
                  /\ ops[1].xy = << main_pass.xy[1] + 3, main_pass.xy[2] + 3 >>
                  /\ ops[1].fill = "#00000080"
                  /\ ops[1].stroke_width = main_pass.stroke_width
                  /\ ops[1].text = main_pass.text
            /\ ~Get(element, "shadow", TRUE) => Len(ops) = 1

\* One element added with its shadow and one added without.
C20_Witness ==
    /\ \E k \in AddTextCalls :
          /\ Get(renders[k].elements[1], "shadow", TRUE)
          /\ Len(Painted(renders[k])) = 2
    /\ \E k \in AddTextCalls :
          /\ ~Get(renders[k].elements[1], "shadow", TRUE)
          /\ Len(Painted(renders[k])) = 1

(***************************************************************************)
(* Properties of parse_design_response.                                    *)
(***************************************************************************)
\* The positions of a chunk in the response.
Occurrences(ch) == { i \in DOMAIN design_response : design_response[i] = ch }

\* The text from the first opening brace to the last closing brace, empty
\* where there is no such text.
BracedText ==
    IF Occurrences("{") = {} \/ Occurrences("}") = {} THEN << >>
    ELSE LET first == CHOOSE i \in Occurrences("{") :
                          \A j \in Occurrences("{") : i <= j
             last == CHOOSE i \in Occurrences("}") :
                          \A j \in Occurrences("}") : i >= j
         IN  IF first > last THEN << >>
             ELSE [ i \in 1 .. (last - first + 1) |-> design_response[first + i - 1] ]

\* C15: parse_design_response never raises; where the text from the first
\* '{' to the last '}' parses as JSON it returns the parsed object, and
\* otherwise (no braces, braces in the wrong order, invalid JSON) the default
\* structure with the whole response under raw_response.
C15_ParseOrDefault ==
    parse.called =>
        /\ ~parse.raised
        /\ is_json(BracedText) =>
              /\ parse.parsed
              /\ parse.design = json_loads(BracedText)
        /\ ~is_json(BracedText) =>
              /\ ~parse.parsed
              /\ DOMAIN parse.design =
                     { "raw_response", "concept", "colors", "typography",
                       "layout", "image_prompt" }
              /\ parse.design.raw_response = design_response
              /\ parse.design.concept = "See raw response"
              /\ parse.design.colors =
                     PyList(<< PyStr("#3498db"), PyStr("#2ecc71"),
                               PyStr("#f39c12"), PyStr("#e74c3c"),
                               PyStr("#ffffff") >>)
              /\ parse.design.typography = "Sans-serif, bold"
              /\ parse.design.layout = "center"
              /\ parse.design.image_prompt =
                     "professional modern abstract background"

\* A nested object parsed out of the prose around it.
C15_Witness ==
    /\ parse.called
    /\ parse.parsed
    /\ design_response = << "t", "{", "k", "{", "}", "}" >>
    /\ parse.design = [ layout |-> EmptyDict ]

(***************************************************************************)
(* Properties of create_banner and the command line.                       *)
(***************************************************************************)
\* The create_banner call of the run and the base path of its outputs.
Banner == cli.banner
Base == output_base(cli_args.output)

\* The final PNG, the vector file and the metadata file of the run exist.
Emitted ==
    /\ Exists(fs, png_path(Base))
    /\ Exists(fs, svg_path(Base))
    /\ Exists(fs, metadata_path(Base))

\* C14: in create_banner, for every text_position, the text is drawn within
\* the text-area the layout planner derives for that text_position and canvas
\* size: the center of the box the main pass covers lies inside the region.
C14_TextInsideTextArea ==
    ( /\ cli.called
      /\ Banner.called
      /\ ~cli_args.no_controlnet
      /\ Banner.final.paint # << >> ) =>
        LET ops == Banner.final.paint
            box == textbbox(ops[Len(ops)].xy, environment.fonts.bbox)
            region == text_box(cli_args.width, cli_args.height, cli_args.position)
        IN  /\ 2 * region[1] <= box[1] + box[3]
            /\ box[1] + box[3] <= 2 * region[3]
            /\ 2 * region[2] <= box[2] + box[4]
            /\ box[2] + box[4] <= 2 * region[4]

\* The advisor could not be constructed, its call failed, or it returned text
\* with no design in it.
AdvisorFailed ==
    \/ ~environment.api_key_available
    \/ environment.advisor = "raises"
    \/ ~parse_design_response(design_banner(environment)).parsed

\* Nothing but the advisor can fail in the run: the output directory can be
\* made, and the background can be produced.
BackgroundAvailable ==
    /\ environment.output_dir_creatable
    /\ \/ /\ cli_args.no_controlnet
          /\ ~gradient_raises(cli_args.height)
       \/ /\ ~cli_args.no_controlnet
          /\ environment.generator = "image"
          /\ create_control_image(pil_strict, cli_args.width, cli_args.height,
                                  cli_args.position, "minimal").err = "none"

\* C16: an advisor failure never blocks banner creation: whenever the advisor
\* cannot be constructed, its call fails or it returns unusable text,
\* create_banner goes on with the default design (its first color is the text
\* color) and the artifacts are produced.
C16_AdvisorFailureDoesNotBlock ==
    ( cli.called /\ AdvisorFailed /\ BackgroundAvailable ) =>
        /\ Banner.called
        /\ Emitted
        /\ Banner.text_layers # << >>
        /\ Banner.text_layers[1].color = "#3498db"

\* C17: the command line returns 0 exactly when banner creation completed with
\* the PNG, the vector file and the metadata file emitted under the output
\* base name, and returns 1 with an error message on stderr for every failure
\* raised while the application was constructed or the banner created.
C17_ExitCode ==
    cli.called =>
        /\ cli.exit_code \in {0, 1}
        /\ cli.exit_code = 0 <=> Emitted
        /\ cli.exit_code = 1 <=> ( ~Banner.called \/ Banner.err # "none" )
        /\ cli.exit_code = 1 => cli.stderr # ""

(***************************************************************************)
(* Properties of concurrent runs.                                          *)
(***************************************************************************)
\* The paths run r has written.
WrittenBy(r) == { w[1] : w \in { v \in written : v[2] = r } }

\* C18: different output names are enough to avoid clobbering: for any two
\* create_banner runs into the same output directory with different output
\* base names, interleaved in any order, the sets of paths they write
\* (control image, background, final PNG, metadata, SVG) are disjoint.
C18_DistinctNamesDisjointFiles ==
    runs[1].output_name # runs[2].output_name =>
        WrittenBy(1) \cap WrittenBy(2) = {}

(***************************************************************************)
(* Properties of the application object.                                   *)
(***************************************************************************)
\* C21: the advisor and the generator are initialized lazily and at most
\* once: a new BannerLord has neither; over any sequence of
\* initialize_agent, initialize_controlnet and create_banner calls each is
\* constructed at most once and never replaced (a later
\* initialize_controlnet with another type keeps the first generator); and
\* a create_banner call with use_controlnet false neither constructs nor
\* calls the generator.
C21_LazyInitializedOnce ==
    /\ session = << >> =>
          /\ ~app.agent
          /\ ~app.controlnet
          /\ app.agents_built = 0
          /\ app.generators_built = 0
    /\ app.agents_built <= 1
    /\ app.generators_built <= 1
    /\ app.agent <=> app.agents_built = 1
    /\ app.controlnet <=> app.generators_built = 1
    /\ \A k \in DOMAIN session :
          LET call == session[k]
          IN  /\ call.before = IF k = 1 THEN NewApp ELSE session[k - 1].after
              /\ call.before.agent =>
                    /\ call.after.agent
                    /\ call.after.agents_built = call.before.agents_built
              /\ call.before.controlnet =>
                    /\ call.after.controlnet
                    /\ call.after.controlnet_type = call.before.controlnet_type
                    /\ call.after.generators_built = call.before.generators_built
              /\ ( call.op = "create_banner" /\ ~call.use_controlnet ) =>
                    /\ call.after.controlnet = call.before.controlnet
                    /\ call.after.generators_built = call.before.generators_built
                    /\ call.after.generator_calls = call.before.generator_calls
    /\ session # << >> => app = session[Len(session)].after

\* The generator constructed as canny, initialize_controlnet called again
\* with depth, then a banner created without ControlNet by an advisor that
\* was constructed for it.
C21_Witness ==
    /\ Len(session) = 3
    /\ session[1].op = "initialize_controlnet"
    /\ session[1].controlnet_type = "canny"
    /\ session[2].op = "initialize_controlnet"
    /\ session[2].controlnet_type = "depth"
    /\ session[2].after.controlnet_type = "canny"
    /\ session[3].op = "create_banner"
    /\ ~session[3].use_controlnet
    /\ session[3].after.agent
    /\ app.generators_built = 1
    /\ app.generator_calls = 0

\* The design create_banner parses out of the advisor's answer (lines 123-130).
Design == parse_design_response(design_banner(environment)).design

\* The design has a non-empty list of colors whose first item is a string.
StartsWithString ==
    /\ "colors" \in DOMAIN Design
    /\ Design.colors.type = "list"
    /\ Design.colors.items # << >>
    /\ Design.colors.items[1].type = "str"

\* C22: the text color the caller of create_banner asks for is the color of
\* the text layer, in the rendered banner and in the exported metadata and
\* vector file, only when the parsed design has no non-empty list of colors
\* starting with a string; otherwise the layer's color is the first color of
\* the design, and with the default design it is the default's first color
\* whatever the caller asked for.
C22_DesignColorOverridesRequested ==
    ( cli.called /\ Banner.called /\ Banner.text_layers # << >> ) =>
        LET color == Banner.text_layers[1].color
            ops == Banner.final.paint
        IN  /\ StartsWithString => color = Design.colors.items[1].value
            /\ ~StartsWithString => color = cli_args.color
            /\ ~parse_design_response(design_banner(environment)).parsed =>
                   color = "#3498db"
            /\ ops # << >> => ops[Len(ops)].fill = color
            /\ Exists(fs, metadata_path(Base)) =>
                   fs[metadata_path(Base)].doc.text_layers[1].color = color
            /\ Exists(fs, svg_path(Base)) =>
                   fs[svg_path(Base)].doc.nodes[2].fill = color

\* A run that asked for gold text with an advisor answering in prose: the
\* emitted banner has the default design's first color.
C22_Witness ==
    /\ cli.called
    /\ Emitted
    /\ cli_args.color = "#FFD700"
    /\ environment.advisor = << "t" >>
    /\ Banner.text_layers # << >>
    /\ Banner.text_layers[1].color = "#3498db"
    /\ fs[metadata_path(Base)].doc.text_layers[1].color = "#3498db"
    /\ fs[svg_path(Base)].doc.nodes[2].fill = "#3498db"

\* Row i of the fallback background has been computed.
RowComputed == gradient.color # << >>

\* C23: in the fallback background of create_banner, for every canvas height
\* and every row i in 0 .. height - 1, each of the three color channels
\* computed for the row lies within 0 .. 255, so the row color has two
\* hexadecimal digits per channel and painting never fails because of the
\* height.
C23_ChannelsWithinByte ==
    RowComputed =>
        /\ \A k \in 1 .. 3 : gradient.channels[k] \in 0 .. 255
        /\ Len(gradient.color) = 6
        /\ gradient.err = "none"

====
